---- MODULE Spec2Model ----
(***************************************************************************)
(* Training / evaluation orchestration of src/auger.py (main): the         *)
(* step-driven training loop with gradient accumulation, the evaluation    *)
(* trigger, and the four checkpoints written at an evaluation (Spec);      *)
(* featurization of one example (FeatSpec); post-processing of one         *)
(* generated sequence (PostSpec); one evaluation / test pass (EvalSpec).   *)
(*                                                                         *)
(* Metric values are abstract integers: a loss, a corpus BLEU and the      *)
(* three corpus ROUGE sub-scores are inputs of each evaluation.  ROUGE     *)
(* sub-scores are multiples of 3 so that their mean is exact.              *)
(***************************************************************************)
EXTENDS Integers, Sequences, FiniteSets, TLC

\* ---------------------------------------------------------------- bounds
MaxG == 3        \* largest gradient_accumulation_steps explored
MaxE == 2        \* largest eval_steps explored
MaxT == 3        \* largest train_steps explored

MaxLen == 3      \* largest max_source_length / max_target_length explored
MaxToks == 3     \* longest tokenization explored
MaxEx == 3       \* largest evaluation set explored
MaxN == 2        \* largest num_return_sequences explored
MaxBatch == 2    \* largest eval_batch_size explored
MaxCands == 6    \* most generated candidates in one pass
MaxTgt == 2      \* most target tokens of one example
MaxTrain == 3        \* training examples
MaxPhys == 2         \* physical training batch size
MaxReq == 7          \* batches requested from the cyclic provider
MaxRec == 3          \* records of an input file
MaxBeam == 2         \* args.beam_size

\* ------------------------------------------------------ program constants
EosId == 1                   \* tokenizer.eos_token_id, the literal 1 of `if 1 in t`
PadId == 0                   \* source_ids = [0] * padding_length + source_ids
IgnoreId == -100             \* target_ids += [-100] * padding_length
BestLossInit == 1000000      \* best_loss = 1e6
BestBleuInit == 0            \* best_bleu = 0
BestRougeInit == 0           \* best_rouge = 0

\* ------------------------------------------------------- input domains
Losses == {1, 2, BestLossInit}     \* eval_loss of one evaluation
Bleus == {0, 1}                    \* dev_bleu of one evaluation
\* corpus <<rouge_1, rouge_2, rouge_l>> of one evaluation
RougeTriples == {<<0, 0, 0>>, <<3, 0, 3>>, <<3, 3, 3>>}

Kinds == {"last", "ppl", "bleu", "rouge"}
Partial == -1                      \* an artifact whose write did not finish
NoCkpt == [model |-> 0, ver |-> -1, tok |-> 0]
Outcomes == {"ok", "fail_model", "interrupted", "fail_tok"}
DevShapes == {"ok", "malformed", "empty"}   \* what the dev file holds
TokIds == {5, 6}                   \* ids of ordinary vocabulary tokens
Stages == {"train", "dev", "test"}
NoneTokenizations == {<<5>>, <<5, 6>>}      \* tokenizer.tokenize("None")
SeqsOfLen(S, a, b) == UNION {[1..k -> S] : k \in a..b}

VARIABLES
    G,              \* args.gradient_accumulation_steps
    E,              \* args.eval_steps
    T,              \* args.train_steps
    do_eval,        \* args.do_eval
    pc,             \* position of the control thread in main
    step,           \* iterations of the training loop started
    nb_tr_steps,
    global_step,
    eval_flag,
    best_loss,
    best_bleu,
    best_rouge,
    eval_loss,
    dev_bleu,
    rouge_1,
    rouge_2,
    rouge_l,
    ckpt,           \* kind -> persisted [model, ver, tok]
    opt_steps,      \* history: optimizer.step() calls
    since_opt,      \* history: batches since the last optimizer.step()
    evals,          \* history: evaluations started
    failed,         \* history: a checkpoint write has failed
    loss_hist,      \* history: eval_loss of every evaluation
    bleu_hist,      \* history: dev_bleu of every evaluation
    rouge_hist,     \* history: mean ROUGE of every evaluation
    gs_hist,        \* history: global_step at every evaluation
    dev_dataset,    \* the dev-set cache filled at the first evaluation
    training,       \* model.training, set by model.train() / model.eval()
    fwd_log,        \* history: every kind of pass run, with its mode
    \* ---- convert_examples_to_features, one example
    f_pc,
    stage,
    max_source_length,
    max_target_length,
    src_tokens,     \* ids of tokenizer.tokenize(task_prefix + source_code)
    tgt_tokens,     \* ids of tokenizer.tokenize(example.target)
    none_tokens,    \* ids of tokenizer.tokenize("None")
    source_ids,
    source_mask,
    target_ids,
    target_mask,
    \* ---- post-processing of one generated sequence
    pp_pc,
    pred,           \* the generated token ids
    t,              \* the ids handed to tokenizer.decode
    \* ---- one evaluation / test pass over a set of examples
    ev_pc,
    ev_stage,               \* "dev": pass inside training; "test": do_test pass
    eval_examples,          \* the idx of every example, in file order
    eval_batch_size,
    num_return_sequences,
    pos,                    \* examples consumed by the running batch loop
    ev_loss,                \* the accumulator eval_loss of the loss pass
    tokens_num,
    total_loss,             \* history: summed loss of all target tokens
    loss_seen,              \* history: examples met by the loss pass
    seen,                   \* history: examples met by the generation pass
    p,                      \* the generated candidates
    index,                  \* the example being reranked
    temp_p,                 \* position in p of the candidate kept per example
    out_file,               \* records of dev.output / test_N.output
    gold_file,              \* records of dev.gold / test_N.gold
    total,
    \* ---- the cyclic training batch provider
    c_pc,
    n_train,                \* len(train_data)
    batch_size,             \* args.train_batch_size // gradient_accumulation_steps
    sampler_order,          \* the permutation drawn by RandomSampler
    loader_pos,             \* batches already taken from the DataLoader iterator
    saved,                  \* the list kept by itertools.cycle
    replay_pos,             \* position of cycle inside saved
    served,                 \* history: every batch returned by next()
    \* ---- read_examples, called twice on one file
    l_pc,
    data,                   \* the 'idx' of every record of the file (or NoIdx)
    rec_no,                 \* records of the running call already read
    examples,               \* Example.idx of the running call
    first_examples,         \* what the first call returned
    \* ---- the test phase over the configured files
    tp_pc,
    files,                  \* the list `files` built from dev / test filename
    file_no,                \* the loop variable idx of `for idx, file in ...`
    beam_size,
    disk                    \* output directory: <<file name, records>>

vars == <<G, E, T, do_eval, pc, step, nb_tr_steps, global_step, eval_flag,
          best_loss, best_bleu, best_rouge, eval_loss, dev_bleu,
          rouge_1, rouge_2, rouge_l, ckpt,
          opt_steps, since_opt, evals, failed,
          loss_hist, bleu_hist, rouge_hist, gs_hist, dev_dataset,
          training, fwd_log,
          f_pc, stage, max_source_length, max_target_length, src_tokens,
          tgt_tokens, none_tokens, source_ids, source_mask, target_ids,
          target_mask, pp_pc, pred, t,
          ev_pc, ev_stage, eval_examples, eval_batch_size, num_return_sequences,
          pos, ev_loss, tokens_num, total_loss, loss_seen, seen, p, index,
          temp_p, out_file, gold_file, total,
          c_pc, n_train, batch_size, sampler_order, loader_pos, saved,
          replay_pos, served,
          l_pc, data, rec_no, examples, first_examples,
          tp_pc, files, file_no, beam_size, disk>>

featVars == <<f_pc, stage, max_source_length, max_target_length, src_tokens,
              tgt_tokens, none_tokens, source_ids, source_mask, target_ids,
              target_mask>>
postVars == <<pp_pc, pred, t>>
evalVars == <<ev_pc, ev_stage, eval_examples, eval_batch_size, num_return_sequences,
              pos, ev_loss, tokens_num, total_loss, loss_seen, seen, p, index,
              temp_p, out_file, gold_file, total>>
cycleVars == <<c_pc, n_train, batch_size, sampler_order, loader_pos, saved,
               replay_pos, served>>
loadVars == <<l_pc, data, rec_no, examples, first_examples>>
testVars == <<tp_pc, files, file_no, beam_size, disk>>
extraVars == <<cycleVars, loadVars, testVars>>
auxVars == <<featVars, postVars, evalVars, extraVars>>
modeVars == <<training, fwd_log>>

\* The featurization variables while another part is explored.
FeatIdle ==
    /\ f_pc = "idle"
    /\ stage = "train"
    /\ max_source_length = 1
    /\ max_target_length = 1
    /\ src_tokens = <<>>
    /\ tgt_tokens = <<>>
    /\ none_tokens = <<>>
    /\ source_ids = <<>>
    /\ source_mask = <<>>
    /\ target_ids = <<>>
    /\ target_mask = <<>>

\* The evaluation-pass variables while another part is explored.
EvalIdle ==
    /\ ev_pc = "idle"
    /\ ev_stage = "dev"
    /\ eval_examples = <<>>
    /\ eval_batch_size = 1
    /\ num_return_sequences = 1
    /\ pos = 0
    /\ ev_loss = 0
    /\ tokens_num = 0
    /\ total_loss = 0
    /\ loss_seen = <<>>
    /\ seen = <<>>
    /\ p = <<>>
    /\ index = 0
    /\ temp_p = <<>>
    /\ out_file = <<>>
    /\ gold_file = <<>>
    /\ total = 0

\* The post-processing variables while another part is explored.
PostIdle ==
    /\ pp_pc = "idle"
    /\ pred = <<>>
    /\ t = <<>>

\* The batch-provider variables while another part is explored.
CycleIdle ==
    /\ c_pc = "idle"
    /\ n_train = 0
    /\ batch_size = 1
    /\ sampler_order = <<>>
    /\ loader_pos = 0
    /\ saved = <<>>
    /\ replay_pos = 0
    /\ served = <<>>

\* The example-loader variables while another part is explored.
LoadIdle ==
    /\ l_pc = "idle"
    /\ data = <<>>
    /\ rec_no = 0
    /\ examples = <<>>
    /\ first_examples = <<>>

\* The test-phase variables while another part is explored.
TestIdle ==
    /\ tp_pc = "idle"
    /\ files = <<>>
    /\ file_no = 0
    /\ beam_size = 1
    /\ disk = {}

ExtraIdle == CycleIdle /\ LoadIdle /\ TestIdle

config == <<G, E, T, do_eval>>
loopVars == <<step, nb_tr_steps, global_step, eval_flag, opt_steps, since_opt, evals, gs_hist>>
metricVars == <<eval_loss, dev_bleu, rouge_1, rouge_2, rouge_l>>
bestVars == <<best_loss, best_bleu, best_rouge>>
histVars == <<loss_hist, bleu_hist, rouge_hist>>

Init ==
    /\ G \in 1..MaxG
    /\ E \in 1..MaxE
    /\ T \in 0..MaxT
    /\ do_eval \in BOOLEAN
    /\ pc = "train"
    /\ step = 0
    /\ nb_tr_steps = 0
    /\ global_step = 0
    /\ eval_flag = TRUE
    /\ best_loss = BestLossInit
    /\ best_bleu = BestBleuInit
    /\ best_rouge = BestRougeInit
    /\ eval_loss = 0
    /\ dev_bleu = 0
    /\ rouge_1 = 0
    /\ rouge_2 = 0
    /\ rouge_l = 0
    /\ ckpt = [k \in Kinds |-> NoCkpt]
    /\ opt_steps = 0
    /\ since_opt = 0
    /\ evals = 0
    /\ failed = FALSE
    /\ loss_hist = <<>>
    /\ bleu_hist = <<>>
    /\ rouge_hist = <<>>
    /\ gs_hist = <<>>
    /\ dev_dataset = "unread"
    /\ training = TRUE
    /\ fwd_log = {}
    /\ FeatIdle
    /\ PostIdle
    /\ EvalIdle
    /\ ExtraIdle

\* if (nb_tr_steps + 1) % args.gradient_accumulation_steps == 0
OptimizerDue(nb) == (nb + 1) % G = 0

\* if args.do_eval and ((global_step + 1) % args.eval_steps == 0) and eval_flag
EvalDue(gs, flag) == do_eval /\ (gs + 1) % E = 0 /\ flag

\* One iteration of `for step in bar` up to the evaluation test.
TrainBatch ==
    /\ pc = "train"
    /\ step < T
    /\ LET nb1 == nb_tr_steps + 1
           opt == OptimizerDue(nb1)
           gs1 == IF opt THEN global_step + 1 ELSE global_step
           flag1 == IF opt THEN TRUE ELSE eval_flag
       IN /\ step' = step + 1
          /\ fwd_log' = fwd_log \cup {[pass |-> "train", training |-> training]}
          /\ global_step' = gs1
          /\ opt_steps' = IF opt THEN opt_steps + 1 ELSE opt_steps
          /\ since_opt' = IF opt THEN 0 ELSE since_opt + 1
          /\ IF EvalDue(gs1, flag1)
             THEN /\ nb_tr_steps' = 0
                  /\ eval_flag' = FALSE
                  /\ evals' = evals + 1
                  /\ gs_hist' = Append(gs_hist, gs1)
                  /\ pc' = "eval_loss"
             ELSE /\ nb_tr_steps' = nb1
                  /\ eval_flag' = flag1
                  /\ UNCHANGED <<evals, gs_hist>>
                  /\ pc' = "train"
    /\ UNCHANGED <<auxVars, training, dev_dataset, config, bestVars, metricVars, ckpt, failed, histVars>>

\* Variant: the loop range is one iteration short.
Finish_early ==
    /\ pc = "train"
    /\ step >= T - 1
    /\ pc' = "done"
    /\ UNCHANGED <<auxVars, modeVars, dev_dataset, config, loopVars, bestVars, metricVars, ckpt, failed, histVars>>

\* The range of the training loop is exhausted.
Finish ==
    /\ pc = "train"
    /\ step = T
    /\ pc' = "done"
    /\ UNCHANGED <<auxVars, modeVars, dev_dataset, config, loopVars, bestVars, metricVars, ckpt, failed, histVars>>

\* The loss pass over the dev set: eval_loss = eval_loss / tokens_num.
\* A dev file is read at the first evaluation only: it can then turn out
\* malformed (read_examples raises) or empty (eval_loss / tokens_num raises).
EvalLoss ==
    /\ pc = "eval_loss"
    /\ \E shape \in (IF dev_dataset = "unread" THEN DevShapes ELSE {"ok"}) :
          CASE shape = "ok" ->
                  /\ dev_dataset' = "cached"
                  /\ \E l \in Losses :
                        /\ eval_loss' = l
                        /\ loss_hist' = Append(loss_hist, l)
                  \* model.eval(), the batches, model.train()
                  /\ fwd_log' = fwd_log \cup {[pass |-> "loss", training |-> FALSE]}
                  /\ training' = TRUE
                  /\ pc' = "save_last"
            [] shape = "malformed" ->
                  /\ pc' = "aborted"
                  /\ UNCHANGED <<dev_dataset, eval_loss, loss_hist, modeVars>>
            [] shape = "empty" ->
                  /\ dev_dataset' = "cached"
                  /\ training' = TRUE
                  /\ pc' = "aborted"
                  /\ UNCHANGED <<eval_loss, loss_hist, fwd_log>>
    /\ UNCHANGED <<auxVars, config, loopVars, bestVars, dev_bleu, rouge_1, rouge_2, rouge_l,
                   ckpt, failed, bleu_hist, rouge_hist>>

\* torch.save(model_to_save.state_dict(), output_model_file) followed by
\* tokenizer.save_pretrained(...): both written in place.
WriteCkpt(old, outcome) ==
    CASE outcome = "ok" ->
            [model |-> evals, ver |-> global_step, tok |-> evals]
      [] outcome = "fail_model" ->
            [model |-> Partial, ver |-> -1, tok |-> old.tok]
      [] outcome = "interrupted" ->
            [model |-> evals, ver |-> global_step, tok |-> old.tok]
      [] outcome = "fail_tok" ->
            [model |-> evals, ver |-> global_step, tok |-> Partial]

\* os.path.join(args.output_dir, 'checkpoint-...')
CkptDir(k) ==
    CASE k = "last" -> "checkpoint-last"
      [] k = "ppl" -> "checkpoint-best-ppl"
      [] k = "bleu" -> "checkpoint-best-bleu"
      [] k = "rouge" -> "checkpoint-best-rouge"

\* os.path.join(output_dir, "pytorch_model.bin"), relative to args.output_dir
ModelFile(k) == <<CkptDir(k), "pytorch_model.bin">>

\* Variant: the tokenizer is saved inside the checkpoint directory.
TokenizerDir_inside(k) == <<CkptDir(k), "tokenizer">>

\* args.output_dir + '/tokenizer_...', relative to args.output_dir
TokenizerDir(k) ==
    CASE k = "last" -> <<"tokenizer_last">>
      [] k = "ppl" -> <<"tokenizer_best_ppl">>
      [] k = "bleu" -> <<"tokenizer_best_bleu">>
      [] k = "rouge" -> <<"tokenizer_best_rouge">>

\* What lies under args.output_dir given the artifacts written so far.
OutputDir ==
    {[path |-> ModelFile(k), holds |-> "model", of |-> k] :
        k \in {j \in Kinds : ckpt[j].model # 0}}
    \cup
    {[path |-> TokenizerDir(k), holds |-> "tokenizer", of |-> k] :
        k \in {j \in Kinds : ckpt[j].tok # 0}}

\* Variant: a failed write is swallowed and the run goes on.
NextPc_swallow(outcome, cont) == cont

\* An exception raised by a write is not caught anywhere in main.
NextPc(outcome, cont) == IF outcome = "ok" THEN cont ELSE "aborted"

\* Variant: the last checkpoint is written only when the loss improves.
SaveLast_ifBetter ==
    /\ pc = "save_last"
    /\ IF eval_loss < best_loss
       THEN \E o \in Outcomes :
               /\ ckpt' = [ckpt EXCEPT !["last"] = WriteCkpt(ckpt["last"], o)]
               /\ pc' = NextPc(o, "save_ppl")
               /\ failed' = (o # "ok")
       ELSE /\ pc' = "save_ppl"
            /\ UNCHANGED <<ckpt, failed>>
    /\ UNCHANGED <<auxVars, modeVars, dev_dataset, config, loopVars, bestVars, metricVars, histVars>>

\* save last checkpoint
SaveLast ==
    /\ pc = "save_last"
    /\ \E o \in Outcomes :
          /\ ckpt' = [ckpt EXCEPT !["last"] = WriteCkpt(ckpt["last"], o)]
          /\ pc' = NextPc(o, "save_ppl")
          /\ failed' = (o # "ok")
    /\ UNCHANGED <<auxVars, modeVars, dev_dataset, config, loopVars, bestVars, metricVars, histVars>>

\* Variant: a tie overwrites.
PplImproved_le == eval_loss <= best_loss

\* if eval_loss < best_loss
PplImproved == eval_loss < best_loss

\* Variant: the checkpoint is written but best_loss keeps its value.
SavePpl_stale ==
    /\ pc = "save_ppl"
    /\ IF PplImproved
       THEN /\ \E o \in Outcomes :
                  /\ ckpt' = [ckpt EXCEPT !["ppl"] = WriteCkpt(ckpt["ppl"], o)]
                  /\ pc' = NextPc(o, "gen")
                  /\ failed' = (o # "ok")
            /\ UNCHANGED best_loss
       ELSE /\ pc' = "gen"
            /\ UNCHANGED <<best_loss, ckpt, failed>>
    /\ UNCHANGED <<auxVars, modeVars, dev_dataset, config, loopVars, best_bleu, best_rouge, metricVars, histVars>>

SavePpl ==
    /\ pc = "save_ppl"
    /\ IF PplImproved
       THEN /\ best_loss' = eval_loss
            /\ \E o \in Outcomes :
                  /\ ckpt' = [ckpt EXCEPT !["ppl"] = WriteCkpt(ckpt["ppl"], o)]
                  /\ pc' = NextPc(o, "gen")
                  /\ failed' = (o # "ok")
       ELSE /\ pc' = "gen"
            /\ UNCHANGED <<best_loss, ckpt, failed>>
    /\ UNCHANGED <<auxVars, modeVars, dev_dataset, config, loopVars, best_bleu, best_rouge, metricVars, histVars>>

\* (rouge_1 + rouge_2 + rouge_l) / 3
RougeAvg(r1, r2, rl) == (r1 + r2 + rl) \div 3

\* Variant: training mode is not restored after generation.
Generate_noRestore ==
    /\ pc = "gen"
    /\ \E b \in Bleus, r \in RougeTriples :
          /\ dev_bleu' = b
          /\ rouge_1' = r[1]
          /\ rouge_2' = r[2]
          /\ rouge_l' = r[3]
          /\ bleu_hist' = Append(bleu_hist, b)
          /\ rouge_hist' = Append(rouge_hist, RougeAvg(r[1], r[2], r[3]))
    \* model.eval() before the batches
    /\ fwd_log' = fwd_log \cup {[pass |-> "gen", training |-> FALSE]}
    /\ training' = FALSE
    /\ pc' = "save_bleu"
    /\ UNCHANGED <<auxVars, dev_dataset, config, loopVars, bestVars, eval_loss, ckpt, failed, loss_hist>>

\* Generation, reranking and corpus aggregation over the dev set; ends with
\* model.train().
Generate ==
    /\ pc = "gen"
    /\ \E b \in Bleus, r \in RougeTriples :
          /\ dev_bleu' = b
          /\ rouge_1' = r[1]
          /\ rouge_2' = r[2]
          /\ rouge_l' = r[3]
          /\ bleu_hist' = Append(bleu_hist, b)
          /\ rouge_hist' = Append(rouge_hist, RougeAvg(r[1], r[2], r[3]))
    \* model.eval() before the batches
    /\ fwd_log' = fwd_log \cup {[pass |-> "gen", training |-> FALSE]}
    /\ training' = TRUE
    /\ pc' = "save_bleu"
    /\ UNCHANGED <<auxVars, dev_dataset, config, loopVars, bestVars, eval_loss, ckpt, failed, loss_hist>>

\* Variant: BLEU is saved only in an evaluation that also set the best loss.
BleuImproved_coupled == dev_bleu > best_bleu /\ eval_loss = best_loss

\* if dev_bleu > best_bleu
BleuImproved == dev_bleu > best_bleu

SaveBleu ==
    /\ pc = "save_bleu"
    /\ IF BleuImproved
       THEN /\ best_bleu' = dev_bleu
            /\ \E o \in Outcomes :
                  /\ ckpt' = [ckpt EXCEPT !["bleu"] = WriteCkpt(ckpt["bleu"], o)]
                  /\ pc' = NextPc(o, "save_rouge")
                  /\ failed' = (o # "ok")
       ELSE /\ pc' = "save_rouge"
            /\ UNCHANGED <<best_bleu, ckpt, failed>>
    /\ UNCHANGED <<auxVars, modeVars, dev_dataset, config, loopVars, best_loss, best_rouge, metricVars, histVars>>

\* Variant: a tie overwrites.
RougeImproved_ge == (rouge_1 + rouge_2 + rouge_l) \div 3 >= best_rouge

\* if (rouge_1 + rouge_2 + rouge_l) / 3 > best_rouge
RougeImproved == RougeAvg(rouge_1, rouge_2, rouge_l) > best_rouge

SaveRouge ==
    /\ pc = "save_rouge"
    /\ IF RougeImproved
       THEN /\ best_rouge' = RougeAvg(rouge_1, rouge_2, rouge_l)
            /\ \E o \in Outcomes :
                  /\ ckpt' = [ckpt EXCEPT !["rouge"] = WriteCkpt(ckpt["rouge"], o)]
                  /\ pc' = NextPc(o, "train")
                  /\ failed' = (o # "ok")
       ELSE /\ pc' = "train"
            /\ UNCHANGED <<best_rouge, ckpt, failed>>
    /\ UNCHANGED <<auxVars, modeVars, dev_dataset, config, loopVars, best_loss, best_bleu, metricVars, histVars>>

Next ==
    \/ TrainBatch
    \/ Finish
    \/ EvalLoss
    \/ SaveLast
    \/ SavePpl
    \/ Generate
    \/ SaveBleu
    \/ SaveRouge

Spec == Init /\ [][Next]_vars

\* ------------------------------------------------------------------
\* convert_examples_to_features, one example
\* ------------------------------------------------------------------

\* The training variables while another part is explored.
TrainIdle ==
    /\ G = 1
    /\ E = 1
    /\ T = 0
    /\ do_eval = FALSE
    /\ pc = "idle"
    /\ step = 0
    /\ nb_tr_steps = 0
    /\ global_step = 0
    /\ eval_flag = TRUE
    /\ best_loss = BestLossInit
    /\ best_bleu = BestBleuInit
    /\ best_rouge = BestRougeInit
    /\ eval_loss = 0
    /\ dev_bleu = 0
    /\ rouge_1 = 0
    /\ rouge_2 = 0
    /\ rouge_l = 0
    /\ ckpt = [k \in Kinds |-> NoCkpt]
    /\ opt_steps = 0
    /\ since_opt = 0
    /\ evals = 0
    /\ failed = FALSE
    /\ loss_hist = <<>>
    /\ bleu_hist = <<>>
    /\ rouge_hist = <<>>
    /\ gs_hist = <<>>
    /\ dev_dataset = "unread"
    /\ training = TRUE
    /\ fwd_log = {}

trainVars == <<config, pc, loopVars, bestVars, metricVars, ckpt, failed, histVars,
               dev_dataset, modeVars>>

\* Python's xs[:k]
PySlice(xs, k) ==
    IF k >= 0
    THEN SubSeq(xs, 1, IF k < Len(xs) THEN k ELSE Len(xs))
    ELSE SubSeq(xs, 1, IF Len(xs) + k > 0 THEN Len(xs) + k ELSE 0)

\* Python's [x] * k
Rep(x, k) == [i \in 1..(IF k > 0 THEN k ELSE 0) |-> x]

\* Variant: no room is left for the end-of-sequence token.
Truncate_full(tokens, L) == PySlice(tokens, L)

\* tokenizer.tokenize(...)[:max_length - 1]
Truncate(tokens, L) == PySlice(tokens, L - 1)

\* Variant: the source is padded on the right.
LeftPad_right(xs, padval, L) == xs \o Rep(padval, L - Len(xs))

\* [padval] * padding_length + xs
LeftPad(xs, padval, L) == Rep(padval, L - Len(xs)) \o xs

\* xs += [padval] * padding_length
RightPad(xs, padval, L) == xs \o Rep(padval, L - Len(xs))

FeatInit ==
    /\ TrainIdle
    /\ PostIdle
    /\ EvalIdle
    /\ ExtraIdle
    /\ f_pc = "start"
    /\ stage \in Stages
    /\ max_source_length \in 1..MaxLen
    /\ max_target_length \in 1..MaxLen
    /\ src_tokens \in SeqsOfLen(TokIds, 1, MaxToks)
    /\ tgt_tokens \in SeqsOfLen(TokIds, 0, MaxToks)
    /\ none_tokens \in NoneTokenizations
    /\ source_ids = <<>>
    /\ source_mask = <<>>
    /\ target_ids = <<>>
    /\ target_mask = <<>>

\* The body of the loop of convert_examples_to_features.
Convert ==
    /\ f_pc = "start"
    /\ LET source_tokens == Truncate(src_tokens, max_source_length) \o <<EosId>>
           target_tokens ==
               (IF stage = "test"
                THEN none_tokens
                ELSE Truncate(tgt_tokens, max_target_length)) \o <<EosId>>
       IN /\ source_ids' = LeftPad(source_tokens, PadId, max_source_length)
          /\ source_mask' = LeftPad(Rep(1, Len(source_tokens)), 0, max_source_length)
          /\ target_ids' = RightPad(target_tokens, IgnoreId, max_target_length)
          /\ target_mask' = RightPad(Rep(1, Len(target_tokens)), 0, max_target_length)
    /\ f_pc' = "done"
    /\ UNCHANGED <<extraVars, trainVars, postVars, evalVars, stage, max_source_length, max_target_length,
                   src_tokens, tgt_tokens, none_tokens>>

FeatNext == Convert

FeatSpec == FeatInit /\ [][FeatNext]_vars

\* ------------------------------------------------------------------
\* post-processing of one generated sequence
\* ------------------------------------------------------------------
GenIds == {PadId, EosId} \cup TokIds       \* ids model.generate can emit

\* Python's xs.index(v), 1-based
IndexOf(xs, v) == CHOOSE i \in 1..Len(xs) : xs[i] = v /\ \A j \in 1..(i - 1) : xs[j] # v

\* Variant: the sequence is cut at the last end-of-sequence id.
CutAtEos_last(xs) ==
    IF \E i \in 1..Len(xs) : xs[i] = EosId
    THEN SubSeq(xs, 1, (CHOOSE i \in 1..Len(xs) :
                            xs[i] = EosId /\ \A j \in (i + 1)..Len(xs) : xs[j] # EosId) - 1)
    ELSE xs

\* if 1 in t: t = t[:t.index(1)]
CutAtEos(xs) ==
    IF \E i \in 1..Len(xs) : xs[i] = EosId
    THEN SubSeq(xs, 1, IndexOf(xs, EosId) - 1)
    ELSE xs

PostInit ==
    /\ TrainIdle
    /\ FeatIdle
    /\ EvalIdle
    /\ ExtraIdle
    /\ pp_pc = "start"
    /\ pred \in SeqsOfLen(GenIds, 0, MaxToks)
    /\ t = <<>>

\* The body of `for pred in preds` up to tokenizer.decode.
PostProcess ==
    /\ pp_pc = "start"
    /\ t' = CutAtEos(pred)
    /\ pp_pc' = "done"
    /\ UNCHANGED <<extraVars, trainVars, featVars, evalVars, pred>>

PostNext == PostProcess

PostSpec == PostInit /\ [][PostNext]_vars

\* ------------------------------------------------------------------
\* one evaluation / test pass: loss pass (dev only), generation,
\* best-of-N reranking, aggregation and output files
\* ------------------------------------------------------------------
MeanLosses == {1, 2}           \* model(...).loss, the mean token loss of a batch
\* A decoded candidate: e = it is empty after strip(); r = its ROUGE
\* sub-scores against the gold target of its example.
Cands == {[e |-> TRUE, r |-> <<0, 0, 0>>]} \cup [e : {FALSE}, r : RougeTriples]
\* idx of the i-th record: absent (its position is used) or its own value.
Positional(n) == [i \in 1..n |-> i - 1]
Explicit(n) == [i \in 1..n |-> 10 * i]

EvalInit ==
    /\ TrainIdle
    /\ FeatIdle
    /\ PostIdle
    /\ ExtraIdle
    /\ ev_stage \in {"dev", "test"}
    /\ \E n \in 0..MaxEx : eval_examples \in {Positional(n), Explicit(n)}
    /\ eval_batch_size \in 1..MaxBatch
    /\ num_return_sequences \in 1..MaxN
    /\ Len(eval_examples) * num_return_sequences <= MaxCands
    /\ ev_pc = IF ev_stage = "dev" THEN "loss" ELSE "gen"
    /\ pos = 0
    /\ ev_loss = 0
    /\ tokens_num = 0
    /\ total_loss = 0
    /\ loss_seen = <<>>
    /\ seen = <<>>
    /\ p = <<>>
    /\ index = 0
    /\ temp_p = <<>>
    /\ out_file = <<>>
    /\ gold_file = <<>>
    /\ total = 0

\* DataLoader(eval_data, sampler=SequentialSampler(eval_data), batch_size=...)
BatchLen(consumed) ==
    IF Len(eval_examples) - consumed < eval_batch_size
    THEN Len(eval_examples) - consumed
    ELSE eval_batch_size

\* One batch of the loss pass: eval_loss += loss.sum().item();
\* tokens_num += target_mask.sum().item()
LossBatch ==
    /\ ev_pc = "loss"
    /\ pos < Len(eval_examples)
    /\ LET b == BatchLen(pos)
       IN /\ \E btok \in b..(b * MaxTgt), m \in MeanLosses :
                /\ ev_loss' = ev_loss + m
                /\ tokens_num' = tokens_num + btok
                /\ total_loss' = total_loss + m * btok
          /\ loss_seen' = loss_seen \o [i \in 1..b |-> pos + i]
          /\ pos' = pos + b
    /\ UNCHANGED <<extraVars, trainVars, featVars, postVars, ev_pc, ev_stage, eval_examples,
                   eval_batch_size, num_return_sequences, seen, p, index, temp_p,
                   out_file, gold_file, total>>

\* eval_loss = eval_loss / tokens_num
LossEnd ==
    /\ ev_pc = "loss"
    /\ pos = Len(eval_examples)
    /\ IF tokens_num = 0
       THEN ev_pc' = "raised_zero_div" /\ pos' = pos
       ELSE ev_pc' = "gen" /\ pos' = 0
    /\ UNCHANGED <<extraVars, trainVars, featVars, postVars, ev_stage, eval_examples,
                   eval_batch_size, num_return_sequences, ev_loss, tokens_num,
                   total_loss, loss_seen, seen, p, index, temp_p, out_file,
                   gold_file, total>>

\* One batch of the generation pass: num_return_sequences candidates per
\* example, in example order.
GenBatch ==
    /\ ev_pc = "gen"
    /\ pos < Len(eval_examples)
    /\ LET b == BatchLen(pos)
       IN /\ \E cs \in [1..(b * num_return_sequences) -> Cands] : p' = p \o cs
          /\ seen' = seen \o [i \in 1..b |-> pos + i]
          /\ pos' = pos + b
    /\ UNCHANGED <<extraVars, trainVars, featVars, postVars, ev_pc, ev_stage, eval_examples,
                   eval_batch_size, num_return_sequences, ev_loss, tokens_num,
                   total_loss, loss_seen, index, temp_p, out_file, gold_file, total>>

GenEnd ==
    /\ ev_pc = "gen"
    /\ pos = Len(eval_examples)
    /\ ev_pc' = "rerank"
    /\ index' = 1
    /\ UNCHANGED <<extraVars, trainVars, featVars, postVars, ev_stage, eval_examples,
                   eval_batch_size, num_return_sequences, pos, ev_loss, tokens_num,
                   total_loss, loss_seen, seen, p, temp_p, out_file, gold_file, total>>

\* Rouge().get_scores raises on an empty hypothesis; the dev reranking
\* passes p[i].strip().lower() as it is, the test reranking passes " ".
Raises(st, c) == st = "dev" /\ c.e

\* (rouge-1 f + rouge-2 f + rouge-l f) / 3; the placeholder " " scores 0
Score(c) == IF c.e THEN RougeAvg(0, 0, 0) ELSE RougeAvg(c.r[1], c.r[2], c.r[3])

\* Variant: a tie replaces the kept candidate.
Better_ge(score, best_score) == score >= best_score

\* if score > best_score
Better(score, best_score) == score > best_score

\* The inner loop over range(index * N, (index + 1) * N); g = 0 stands for
\* the initial best_generation "".
BestOfN(cands, lo, hi) ==
    LET F[i \in (lo - 1)..hi] ==
            IF i = lo - 1 THEN [g |-> 0, s |-> -1]
            ELSE IF Better(Score(cands[i]), F[i - 1].s)
                 THEN [g |-> i, s |-> Score(cands[i])]
                 ELSE F[i - 1]
    IN F[hi].g

\* One iteration of `for index, gold in enumerate(eval_examples)`.
RerankExample ==
    /\ ev_pc = "rerank"
    /\ index <= Len(eval_examples)
    /\ LET lo == (index - 1) * num_return_sequences + 1
           hi == index * num_return_sequences
       IN IF \E i \in lo..hi : Raises(ev_stage, p[i])
          THEN /\ ev_pc' = "raised_empty_hyp"
               /\ UNCHANGED <<index, temp_p>>
          ELSE /\ temp_p' = Append(temp_p, BestOfN(p, lo, hi))
               /\ index' = index + 1
               /\ ev_pc' = "rerank"
    /\ UNCHANGED <<extraVars, trainVars, featVars, postVars, ev_stage, eval_examples,
                   eval_batch_size, num_return_sequences, pos, ev_loss, tokens_num,
                   total_loss, loss_seen, seen, p, out_file, gold_file, total>>

\* Variant: the record carries the position of the example.
RecordId_position(i) == i - 1

\* str(gold.idx)
RecordId(i) == eval_examples[i]

\* The loop over zip(p, eval_examples) that writes both files, then
\* total = len(predictions) and the divisions by total.
Aggregate ==
    /\ ev_pc = "rerank"
    /\ index > Len(eval_examples)
    /\ out_file' = [i \in 1..Len(temp_p) |-> <<RecordId(i), temp_p[i]>>]
    /\ gold_file' = [i \in 1..Len(temp_p) |-> RecordId(i)]
    /\ total' = Len(temp_p)
    /\ ev_pc' = IF Len(temp_p) = 0 THEN "raised_zero_div" ELSE "done"
    /\ UNCHANGED <<extraVars, trainVars, featVars, postVars, ev_stage, eval_examples,
                   eval_batch_size, num_return_sequences, pos, ev_loss, tokens_num,
                   total_loss, loss_seen, seen, p, index, temp_p>>

EvalNext ==
    \/ LossBatch
    \/ LossEnd
    \/ GenBatch
    \/ GenEnd
    \/ RerankExample
    \/ Aggregate

EvalSpec == EvalInit /\ [][EvalNext]_vars

\* ------------------------------------------------------------------
\* the cyclic training batch provider: cycle(DataLoader(RandomSampler))
\* ------------------------------------------------------------------
\* RandomSampler: a permutation of the n examples
Perms(n) == {f \in [1..n -> 1..n] : \A i, j \in 1..n : i # j => f[i] # f[j]}

\* Variant: DataLoader(..., drop_last=True).
Batches_dropLast(order, b) ==
    [j \in 1..(Len(order) \div b) |-> SubSeq(order, (j - 1) * b + 1, j * b)]

\* The batches of one pass over DataLoader(train_data, sampler, batch_size=b)
Batches(order, b) ==
    [j \in 1..((Len(order) + b - 1) \div b) |->
        SubSeq(order, (j - 1) * b + 1,
               IF j * b < Len(order) THEN j * b ELSE Len(order))]

CycleInit ==
    /\ TrainIdle
    /\ FeatIdle
    /\ PostIdle
    /\ EvalIdle
    /\ LoadIdle
    /\ TestIdle
    /\ c_pc = "serving"
    /\ n_train \in 0..MaxTrain
    /\ batch_size \in 1..MaxPhys
    /\ sampler_order \in Perms(n_train)
    /\ loader_pos = 0
    /\ saved = <<>>
    /\ replay_pos = 0
    /\ served = <<>>

\* next(train_dataloader) while the DataLoader still has batches: cycle
\* yields the batch and keeps it.
NextFromLoader ==
    /\ c_pc = "serving"
    /\ Len(served) < MaxReq
    /\ loader_pos < Len(Batches(sampler_order, batch_size))
    /\ LET batch == Batches(sampler_order, batch_size)[loader_pos + 1]
       IN /\ served' = Append(served, batch)
          /\ saved' = Append(saved, batch)
    /\ loader_pos' = loader_pos + 1
    /\ UNCHANGED <<trainVars, featVars, postVars, evalVars, loadVars, testVars,
                   c_pc, n_train, batch_size, sampler_order, replay_pos>>

\* next(train_dataloader) once the DataLoader is exhausted: cycle walks its
\* saved list over and over.
NextFromSaved ==
    /\ c_pc = "serving"
    /\ Len(served) < MaxReq
    /\ loader_pos = Len(Batches(sampler_order, batch_size))
    /\ saved # <<>>
    /\ replay_pos' = IF replay_pos = Len(saved) THEN 1 ELSE replay_pos + 1
    /\ served' = Append(served, saved[replay_pos'])
    /\ UNCHANGED <<trainVars, featVars, postVars, evalVars, loadVars, testVars,
                   c_pc, n_train, batch_size, sampler_order, loader_pos, saved>>

\* With nothing to serve the run ends in an exception before any batch.
NextRaises ==
    /\ c_pc = "serving"
    /\ loader_pos = Len(Batches(sampler_order, batch_size))
    /\ saved = <<>>
    /\ c_pc' = "raised"
    /\ UNCHANGED <<trainVars, featVars, postVars, evalVars, loadVars, testVars,
                   n_train, batch_size, sampler_order, loader_pos, saved,
                   replay_pos, served>>

CycleNext ==
    \/ NextFromLoader
    \/ NextFromSaved
    \/ NextRaises

CycleSpec == CycleInit /\ [][CycleNext]_vars

\* ------------------------------------------------------------------
\* read_examples, called twice on the same file
\* ------------------------------------------------------------------
NoIdx == -1                    \* a record without the key 'idx'
IdxVals == {NoIdx, 0, 7}

\* Variant: every record gets its position.
ExampleIdx_position(js, i) == i

\* if 'idx' not in js: js['idx'] = idx ... idx = js['idx']
ExampleIdx(js, i) == IF js = NoIdx THEN i ELSE js

LoadInit ==
    /\ TrainIdle
    /\ FeatIdle
    /\ PostIdle
    /\ EvalIdle
    /\ CycleIdle
    /\ TestIdle
    /\ l_pc = "first"
    /\ data \in SeqsOfLen(IdxVals, 0, MaxRec)
    /\ rec_no = 0
    /\ examples = <<>>
    /\ first_examples = <<>>

\* One iteration of `for idx, js in enumerate(data)`.
ReadRecord ==
    /\ l_pc \in {"first", "second"}
    /\ rec_no < Len(data)
    /\ examples' = Append(examples, ExampleIdx(data[rec_no + 1], rec_no))
    /\ rec_no' = rec_no + 1
    /\ UNCHANGED <<trainVars, featVars, postVars, evalVars, cycleVars, testVars,
                   l_pc, data, first_examples>>

\* return examples, and the file is read again
ReturnFirst ==
    /\ l_pc = "first"
    /\ rec_no = Len(data)
    /\ first_examples' = examples
    /\ examples' = <<>>
    /\ rec_no' = 0
    /\ l_pc' = "second"
    /\ UNCHANGED <<trainVars, featVars, postVars, evalVars, cycleVars, testVars, data>>

\* return examples
ReturnSecond ==
    /\ l_pc = "second"
    /\ rec_no = Len(data)
    /\ l_pc' = "done"
    /\ UNCHANGED <<trainVars, featVars, postVars, evalVars, cycleVars, testVars,
                   data, rec_no, examples, first_examples>>

LoadNext ==
    \/ ReadRecord
    \/ ReturnFirst
    \/ ReturnSecond

LoadSpec == LoadInit /\ [][LoadNext]_vars

\* ------------------------------------------------------------------
\* the test phase: one pass per configured file
\* ------------------------------------------------------------------
\* args.dev_filename / args.test_filename: None, or a file of examples
InputFiles ==
    {[given |-> FALSE, ids |-> <<>>]} \cup
    {[given |-> TRUE, ids |-> x] :
        x \in UNION {{Positional(n), Explicit(n)} : n \in 0..MaxEx}}

\* files = []; append dev_filename, then test_filename, when not None
FilesOf(dev, test) ==
    (IF dev.given THEN <<[name |-> "dev", ids |-> dev.ids]>> ELSE <<>>) \o
    (IF test.given THEN <<[name |-> "test", ids |-> test.ids]>> ELSE <<>>)

\* Variant: the name also carries the loop variable idx.
OutName_perFile(i, beam, ext) == <<"test", beam, ext, i>>

\* "test_{}.output".format(str(args.beam_size)) and "test_{}.gold"
OutName(i, beam, ext) == <<"test", beam, ext>>

\* open(name, 'w') and the writes of one pass: the file is replaced.
WriteFile(d, name, recs) == {e \in d : e[1] # name} \cup {<<name, recs>>}

\* One record per example of the file; src tells which file it came from.
RecordsOf(f) == [i \in 1..Len(f.ids) |-> [src |-> f.name, idx |-> f.ids[i]]]

TestInit ==
    /\ TrainIdle
    /\ FeatIdle
    /\ PostIdle
    /\ EvalIdle
    /\ CycleIdle
    /\ LoadIdle
    /\ tp_pc = "running"
    /\ \E dev \in InputFiles, test \in InputFiles : files = FilesOf(dev, test)
    /\ file_no = 0
    /\ beam_size \in 1..MaxBeam
    /\ disk = {}

\* One iteration of `for idx, file in enumerate(files)`: generation,
\* reranking, both files written, then the corpus averages.
TestPass ==
    /\ tp_pc = "running"
    /\ file_no < Len(files)
    /\ LET f == files[file_no + 1]
       IN /\ disk' = WriteFile(WriteFile(disk, OutName(file_no, beam_size, "output"),
                                         RecordsOf(f)),
                               OutName(file_no, beam_size, "gold"), RecordsOf(f))
          /\ IF Len(f.ids) = 0
             THEN tp_pc' = "raised_zero_div" /\ file_no' = file_no
             ELSE tp_pc' = "running" /\ file_no' = file_no + 1
    /\ UNCHANGED <<trainVars, featVars, postVars, evalVars, cycleVars, loadVars,
                   files, beam_size>>

TestEnd ==
    /\ tp_pc = "running"
    /\ file_no = Len(files)
    /\ tp_pc' = "done"
    /\ UNCHANGED <<trainVars, featVars, postVars, evalVars, cycleVars, loadVars,
                   files, file_no, beam_size, disk>>

TestNext ==
    \/ TestPass
    \/ TestEnd

TestSpec == TestInit /\ [][TestNext]_vars

\* ------------------------------------------------------------ helpers
Range(s) == {s[i] : i \in 1..Len(s)}
MinOf(s) == CHOOSE m \in Range(s) : \A x \in Range(s) : m <= x
MaxOf(s) == CHOOSE m \in Range(s) : \A x \in Range(s) : m >= x
FirstIndexOf(s, v) == CHOOSE i \in 1..Len(s) : s[i] = v /\ \A j \in 1..(i - 1) : s[j] # v
WrittenAt(i) == [model |-> i, ver |-> gs_hist[i], tok |-> i]
PplDone == evals >= 1 /\ pc \in {"gen", "save_bleu", "save_rouge", "train", "done"}
BleuDone == evals >= 1 /\ pc \in {"save_rouge", "train", "done"}
RougeDone == evals >= 1 /\ pc \in {"train", "done"}

\* C1: the optimizer steps once every G physical batches: each optimizer
\* step is preceded by exactly G batches since the previous one (or since
\* the start), evaluation or not, so T batches with G dividing T make
\* exactly T/G optimizer steps.
C1_OptimizerEveryG ==
    /\ [](pc = "done" /\ T % G = 0 => opt_steps = T \div G)
    /\ [][opt_steps' = opt_steps + 1 => since_opt + 1 = G]_vars

\* C2: the evaluation-due flag is raised only by an optimizer step, so no
\* evaluation runs before the first optimizer step and the number of
\* evaluations never exceeds the number of optimizer steps.
C2_EvalsAtMostOptSteps == evals <= opt_steps

\* C3: an evaluation starts exactly when the number of completed optimizer
\* steps is a positive multiple of eval_steps.
C3_EvalAtMultiplesOfE ==
    pc = "eval_loss" => (global_step >= 1 /\ global_step % E = 0)

\* C4: a run with train_steps = T consumes exactly T physical batches and
\* then leaves the loop; the steps of an evaluation consume none.
C4_ExactlyTBatches ==
    /\ [](step <= T /\ (pc = "done" => step = T))
    /\ [][pc # "train" => step' = step]_vars

C4_Witness == pc = "done" /\ step = T /\ T >= 2 /\ evals >= 1

\* C5 (as stated): after any non-empty sequence of evaluations the best-ppl
\* checkpoint holds the model of the earliest evaluation that attained the
\* minimum loss of the sequence.
C5_Orig_BestPplIsEarliestMin ==
    PplDone => ckpt["ppl"].model = FirstIndexOf(loss_hist, MinOf(loss_hist))

\* C5 (amended): best-ppl is overwritten at an evaluation iff its loss is
\* strictly below the stored best, which starts at 1e6; when the minimum
\* loss of the sequence is below 1e6 the checkpoint is that of the earliest
\* evaluation attaining it, and otherwise no best-ppl checkpoint exists.
C5_BestPpl ==
    /\ [](PplDone =>
            IF MinOf(loss_hist) < BestLossInit
            THEN ckpt["ppl"] = WrittenAt(FirstIndexOf(loss_hist, MinOf(loss_hist)))
            ELSE ckpt["ppl"] = NoCkpt)
    /\ [][(pc = "save_ppl" /\ pc' = "gen") =>
            ((ckpt'["ppl"] # ckpt["ppl"]) <=> (eval_loss < best_loss))]_vars

C5_Witness ==
    /\ PplDone
    /\ loss_hist = <<2, 1, 1>>
    /\ ckpt["ppl"].model = 2

\* C6 (as stated): after any non-empty sequence of evaluations each of the
\* two maximised checkpoints holds the model of the earliest evaluation
\* that attained the maximum of its metric.
C6_Orig_BestIsEarliestMax ==
    /\ BleuDone => ckpt["bleu"].model = FirstIndexOf(bleu_hist, MaxOf(bleu_hist))
    /\ RougeDone => ckpt["rouge"].model = FirstIndexOf(rouge_hist, MaxOf(rouge_hist))

\* C6 (amended): each maximised checkpoint is overwritten iff the new value
\* is strictly above the stored best, which starts at 0; when the maximum
\* of the sequence is above 0 the checkpoint is that of the earliest
\* evaluation attaining it, and otherwise no checkpoint of the kind exists.
C6_BestMax ==
    /\ [](BleuDone =>
            IF MaxOf(bleu_hist) > BestBleuInit
            THEN ckpt["bleu"] = WrittenAt(FirstIndexOf(bleu_hist, MaxOf(bleu_hist)))
            ELSE ckpt["bleu"] = NoCkpt)
    /\ [](RougeDone =>
            IF MaxOf(rouge_hist) > BestRougeInit
            THEN ckpt["rouge"] = WrittenAt(FirstIndexOf(rouge_hist, MaxOf(rouge_hist)))
            ELSE ckpt["rouge"] = NoCkpt)
    /\ [][(pc = "save_bleu" /\ pc' = "save_rouge") =>
            ((ckpt'["bleu"] # ckpt["bleu"]) <=> (dev_bleu > best_bleu))]_vars
    /\ [][(pc = "save_rouge" /\ pc' = "train") =>
            ((ckpt'["rouge"] # ckpt["rouge"])
                <=> (rouge_1 + rouge_2 + rouge_l > 3 * best_rouge))]_vars

C6_Witness ==
    /\ RougeDone
    /\ bleu_hist = <<0, 1, 1>>
    /\ rouge_hist = <<0, 2, 2>>
    /\ ckpt["bleu"].model = 2
    /\ ckpt["rouge"].model = 2

\* C7: every evaluation overwrites the last checkpoint with the current
\* model whatever the metrics are, so once an evaluation has written it the
\* last checkpoint is that of the most recent evaluation.
C7_LastAlways ==
    (evals >= 1 /\ pc \in {"save_ppl", "gen", "save_bleu", "save_rouge", "train", "done"})
        => ckpt["last"] = WrittenAt(evals)

C7_Witness ==
    /\ pc = "train"
    /\ evals = 2
    /\ loss_hist[2] > loss_hist[1]
    /\ bleu_hist[2] < bleu_hist[1]
    /\ rouge_hist[2] < rouge_hist[1]
    /\ ckpt["last"].model = 2

\* C8: the four trackers are independent: a kind's checkpoint and stored
\* best change only at that kind's own step and only if its own metric
\* improves on its own stored best, and then the checkpoint is overwritten
\* whatever happens to the other kinds.
C8_Independent ==
    [][ /\ (ckpt'["last"] # ckpt["last"]) => pc = "save_last"
        /\ (pc = "save_last" /\ ~failed') =>
                ckpt'["last"] = [model |-> evals, ver |-> global_step, tok |-> evals]
        /\ (ckpt'["ppl"] # ckpt["ppl"] \/ best_loss' # best_loss)
                => (pc = "save_ppl" /\ eval_loss < best_loss)
        /\ (pc = "save_ppl" /\ eval_loss < best_loss /\ ~failed') =>
                ckpt'["ppl"] = [model |-> evals, ver |-> global_step, tok |-> evals]
        /\ (ckpt'["bleu"] # ckpt["bleu"] \/ best_bleu' # best_bleu)
                => (pc = "save_bleu" /\ dev_bleu > best_bleu)
        /\ (pc = "save_bleu" /\ dev_bleu > best_bleu /\ ~failed') =>
                ckpt'["bleu"] = [model |-> evals, ver |-> global_step, tok |-> evals]
        /\ (ckpt'["rouge"] # ckpt["rouge"] \/ best_rouge' # best_rouge)
                => (pc = "save_rouge" /\ rouge_1 + rouge_2 + rouge_l > 3 * best_rouge)
        /\ (pc = "save_rouge" /\ rouge_1 + rouge_2 + rouge_l > 3 * best_rouge /\ ~failed') =>
                ckpt'["rouge"] = [model |-> evals, ver |-> global_step, tok |-> evals]
      ]_vars

C8_Witness ==
    /\ pc = "train"
    /\ evals = 2
    /\ ckpt["ppl"].model = 1
    /\ ckpt["bleu"].model = 2
    /\ ckpt["rouge"].model = 1
    /\ ckpt["last"].model = 2

\* C14: a malformed input file is fatal before any compute: no training
\* batch is processed and no optimizer step taken before every input file
\* the run uses has been read and found well-formed.
C14_InputsReadBeforeCompute ==
    ((step >= 1 \/ opt_steps >= 1) /\ do_eval) => dev_dataset = "cached"

\* The elements of ids at the positions where mask is 1, in order.
Unmasked(ids, mask) ==
    LET F[i \in 0..Len(ids)] ==
            IF i = 0 THEN <<>>
            ELSE IF mask[i] = 1 THEN Append(F[i - 1], ids[i]) ELSE F[i - 1]
    IN F[Len(ids)]
FirstN(xs, k) == SubSeq(xs, 1, IF k < Len(xs) THEN k ELSE Len(xs))

\* C15: featurization always produces fixed-width output: in every mode and
\* for every budget >= 1 the source ids and mask have max_source_length
\* elements and the target ids and mask max_target_length elements.
C15_FixedWidth ==
    f_pc = "done" =>
        /\ Len(source_ids) = max_source_length
        /\ Len(source_mask) = max_source_length
        /\ Len(target_ids) = max_target_length
        /\ Len(target_mask) = max_target_length

\* C16: the source is left-padded and the target right-padded: source_mask
\* is 0s then 1s, with id 0 under every 0 and a real token id under every
\* 1; target_mask is 1s then 0s and target_ids is -100 exactly under the 0s.
C16_PaddingSides ==
    f_pc = "done" =>
        /\ Len(source_mask) = Len(source_ids)
        /\ \A i \in 1..Len(source_mask) :
              /\ source_mask[i] \in {0, 1}
              /\ source_mask[i] = 0 => source_ids[i] = 0
              /\ source_mask[i] = 1 => source_ids[i] \in TokIds \cup {EosId}
              /\ \A j \in 1..Len(source_mask) :
                    (i < j /\ source_mask[i] = 1) => source_mask[j] = 1
        /\ Len(target_mask) = Len(target_ids)
        /\ \A i \in 1..Len(target_mask) :
              /\ target_mask[i] \in {0, 1}
              /\ target_mask[i] = 0 <=> target_ids[i] = -100
              /\ \A j \in 1..Len(target_mask) :
                    (i < j /\ target_mask[i] = 0) => target_mask[j] = 0

C16_Witness ==
    /\ f_pc = "done"
    /\ stage = "train"
    /\ source_mask = <<0, 1, 1>>
    /\ target_mask = <<1, 1, 0>>

\* C17: truncation law: the non-padding source ids are the first
\* min(n, L-1) tokens of the tokenized prefixed source followed by the
\* end-of-sequence id, and outside test mode the non-padding target ids are
\* the first min(m, Lt-1) tokens of the tokenized target followed by
\* end-of-sequence; the conversion always completes.
C17_TruncationLaw ==
    f_pc = "done" =>
        /\ Unmasked(source_ids, source_mask)
              = FirstN(src_tokens, max_source_length - 1) \o <<1>>
        /\ stage # "test" =>
              Unmasked(target_ids, target_mask)
                  = FirstN(tgt_tokens, max_target_length - 1) \o <<1>>

C17_Witness ==
    /\ f_pc = "done"
    /\ stage = "dev"
    /\ Len(src_tokens) > max_source_length - 1
    /\ Len(tgt_tokens) > max_target_length - 1
    /\ max_source_length = 2
    /\ max_target_length = 3
    /\ Unmasked(source_ids, source_mask) = <<src_tokens[1], 1>>

\* C19: post-processing keeps exactly the prefix before the first
\* end-of-sequence id, the whole sequence when there is none, and what it
\* keeps never contains the end-of-sequence id.
C19_CutAtFirstEos ==
    pp_pc = "done" =>
        /\ Len(t) <= Len(pred)
        /\ \A i \in 1..Len(t) : t[i] = pred[i] /\ t[i] # 1
        /\ Len(t) < Len(pred) => pred[Len(t) + 1] = 1

C19_Witness ==
    /\ pp_pc = "done"
    /\ pred = <<5, 1, 1>>
    /\ t = <<5>>

ClaimScore(c) == IF c.e THEN 0 ELSE c.r[1] + c.r[2] + c.r[3]
Block(i) == ((i - 1) * num_return_sequences + 1)..(i * num_return_sequences)

\* C11: best-of-N reranking keeps, for every example, one of its own N
\* candidates whose aggregate overlap score is at least that of every other
\* candidate of the example, and among the maximal ones the lowest index.
C11_BestOfN ==
    \A i \in 1..Len(temp_p) :
        /\ temp_p[i] \in Block(i)
        /\ \A j \in Block(i) :
              /\ ClaimScore(p[j]) <= ClaimScore(p[temp_p[i]])
              /\ j < temp_p[i] => ClaimScore(p[j]) < ClaimScore(p[temp_p[i]])

C11_Witness ==
    /\ ev_pc = "done"
    /\ Len(eval_examples) = 3
    /\ num_return_sequences = 2
    /\ temp_p = <<1, 4, 5>>
    /\ ClaimScore(p[1]) = ClaimScore(p[2])
    /\ ClaimScore(p[3]) < ClaimScore(p[4])

\* C12: wherever a hypothesis is scored, one that is empty after stripping
\* goes through the single-space placeholder: scoring never raises for it
\* and its example still counts in the denominator of the corpus averages.
C12_EmptyHypothesisScored ==
    /\ ev_pc # "raised_empty_hyp"
    /\ ev_pc = "done" => total = Len(eval_examples)

\* C13: on an empty evaluation or test set the pass is guarded: it never
\* ends in a division by zero, neither in eval_loss / tokens_num nor in the
\* corpus averages.
C13_EmptySetGuarded == ev_pc # "raised_zero_div"

\* C18: the evaluation loss is the total loss of all non-ignored target
\* tokens divided by their number (whatever the batch size):
\* ev_loss / tokens_num = total_loss / tokens_num.
C18_LossIsTokenAverage ==
    (ev_stage = "dev" /\ ev_pc \in {"gen", "rerank", "done"}) =>
        ev_loss * tokens_num = total_loss * tokens_num

\* C20: every pass meets every example exactly once in file order, and
\* when the pass has written its files the hypothesis file and the reference
\* file each hold one record per example, in order, the i-th carrying the id
\* of the i-th example.
C20_OncePerExampleInOrder ==
    /\ \A i \in 1..Len(seen) : seen[i] = i
    /\ \A i \in 1..Len(loss_seen) : loss_seen[i] = i
    /\ ev_pc \in {"rerank", "done", "raised_empty_hyp"} => Len(seen) = Len(eval_examples)
    /\ (ev_stage = "dev" /\ ev_pc \in {"gen", "rerank", "done"})
            => Len(loss_seen) = Len(eval_examples)
    /\ ev_pc = "done" =>
          /\ Len(out_file) = Len(eval_examples)
          /\ Len(gold_file) = Len(eval_examples)
          /\ \A i \in 1..Len(eval_examples) :
                /\ out_file[i][1] = eval_examples[i]
                /\ gold_file[i] = eval_examples[i]

C20_Witness ==
    /\ ev_pc = "done"
    /\ eval_examples = <<10, 20, 30>>
    /\ eval_batch_size = 2
    /\ gold_file = <<10, 20, 30>>
    /\ seen = <<1, 2, 3>>

\* C9: persistence is all-or-nothing per kind: in no reachable state, a
\* failure included, is a persisted artifact partially written or a kind's
\* model state from another evaluation than its tokenizer state.
C9_AllOrNothing ==
    \A k \in Kinds :
        /\ ckpt[k].model # Partial
        /\ ckpt[k].tok # Partial
        /\ ckpt[k].model = ckpt[k].tok

Complete(k) == ckpt[k].model >= 1 /\ ckpt[k].tok = ckpt[k].model

\* C10: a failed checkpoint write aborts the run: no training batch is
\* processed after it, and whenever a batch is processed every stored best
\* that left its initial value is the value of an evaluation whose
\* checkpoint of that kind is completely persisted.
C10_FailureAborts ==
    /\ [](failed => pc = "aborted")
    /\ [][failed => step' = step]_vars
    /\ [][step' # step =>
            /\ best_loss # BestLossInit =>
                  (Complete("ppl") /\ loss_hist[ckpt["ppl"].model] = best_loss)
            /\ best_bleu # BestBleuInit =>
                  (Complete("bleu") /\ bleu_hist[ckpt["bleu"].model] = best_bleu)
            /\ best_rouge # BestRougeInit =>
                  (Complete("rouge") /\ rouge_hist[ckpt["rouge"].model] = best_rouge)
         ]_vars

C10_Witness ==
    /\ pc = "aborted"
    /\ failed
    /\ step < T
    /\ best_loss # BestLossInit
    /\ ckpt["ppl"].model = Partial

\* The directory names of the stated layout.
StatedDirs == {"checkpoint-last", "checkpoint-best-ppl",
               "checkpoint-best-overlap", "checkpoint-best-quality"}
Holds(d, what, k) ==
    \E e \in OutputDir :
        e.of = k /\ e.holds = what /\ Len(e.path) = 2 /\ e.path[1] = d

\* C22 as stated: after a write of a kind, one of the directories
\* checkpoint-last, checkpoint-best-ppl, checkpoint-best-overlap,
\* checkpoint-best-quality contains both the model-state file and the
\* tokenizer-state directory of that write.
C22_Orig_StatedLayout ==
    \A k \in Kinds :
        Complete(k) =>
            \E d \in StatedDirs : Holds(d, "model", k) /\ Holds(d, "tokenizer", k)

\* C22: after a completed write of a kind the output directory holds the
\* model-state file in that kind's own directory (checkpoint-last,
\* checkpoint-best-ppl, checkpoint-best-bleu, checkpoint-best-rouge) and the
\* tokenizer state in a sibling directory directly under the output directory
\* (tokenizer_last, tokenizer_best_ppl, tokenizer_best_bleu,
\* tokenizer_best_rouge); no checkpoint directory contains a tokenizer.
C22_Layout ==
    /\ Complete("last") =>
          /\ [path |-> <<"checkpoint-last", "pytorch_model.bin">>,
              holds |-> "model", of |-> "last"] \in OutputDir
          /\ [path |-> <<"tokenizer_last">>,
              holds |-> "tokenizer", of |-> "last"] \in OutputDir
    /\ Complete("ppl") =>
          /\ [path |-> <<"checkpoint-best-ppl", "pytorch_model.bin">>,
              holds |-> "model", of |-> "ppl"] \in OutputDir
          /\ [path |-> <<"tokenizer_best_ppl">>,
              holds |-> "tokenizer", of |-> "ppl"] \in OutputDir
    /\ Complete("bleu") =>
          /\ [path |-> <<"checkpoint-best-bleu", "pytorch_model.bin">>,
              holds |-> "model", of |-> "bleu"] \in OutputDir
          /\ [path |-> <<"tokenizer_best_bleu">>,
              holds |-> "tokenizer", of |-> "bleu"] \in OutputDir
    /\ Complete("rouge") =>
          /\ [path |-> <<"checkpoint-best-rouge", "pytorch_model.bin">>,
              holds |-> "model", of |-> "rouge"] \in OutputDir
          /\ [path |-> <<"tokenizer_best_rouge">>,
              holds |-> "tokenizer", of |-> "rouge"] \in OutputDir
    /\ \A e \in OutputDir : e.holds = "tokenizer" => Len(e.path) = 1

C22_Witness ==
    /\ \A k \in Kinds : Complete(k)
    /\ Cardinality(OutputDir) = 8

ButLast(h) == SubSeq(h, 1, Len(h) - 1)
LowestOf(init, h) == MinOf(<<init>> \o h)
HighestOf(init, h) == MaxOf(<<init>> \o h)
\* The evaluations whose comparison of the given kind has been made.
Compared(h, pending) ==
    IF pc \in pending THEN {ButLast(h)}
    ELSE IF pc = "aborted" /\ h # <<>> THEN {ButLast(h), h}
    ELSE {h}

\* C24: the stored bests are monotone and bounded by their initial values:
\* best_loss never increases and is the minimum of 1e6 and every loss
\* compared so far; best_bleu and best_rouge never decrease and are the
\* maximum of 0 and every value compared so far.
C24_BestMonotone ==
    /\ [](/\ \E h \in Compared(loss_hist, {"save_last", "save_ppl"}) :
                best_loss = LowestOf(BestLossInit, h)
          /\ \E h \in Compared(bleu_hist, {"save_bleu"}) :
                best_bleu = HighestOf(BestBleuInit, h)
          /\ \E h \in Compared(rouge_hist, {"save_bleu", "save_rouge"}) :
                best_rouge = HighestOf(BestRougeInit, h))
    /\ [][/\ best_loss' <= best_loss
          /\ best_bleu' >= best_bleu
          /\ best_rouge' >= best_rouge]_vars

C24_Witness ==
    /\ pc = "done"
    /\ loss_hist = <<2, 1, 2>>
    /\ best_loss = 1
    /\ bleu_hist = <<0, 1, 0>>
    /\ best_bleu = 1
    /\ rouge_hist = <<2, 3, 0>>
    /\ best_rouge = 3

\* C25: every training forward/backward pass runs in training mode, every
\* evaluation loss pass and every generation pass in evaluation mode, and
\* training mode is back on whenever the next training batch is due.
C25_ModeDiscipline ==
    /\ \A f \in fwd_log : f.training = (f.pass = "train")
    /\ pc = "train" => training

C25_Witness ==
    /\ pc = "train"
    /\ evals >= 2
    /\ training
    /\ fwd_log = {[pass |-> "train", training |-> TRUE],
                  [pass |-> "loss", training |-> FALSE],
                  [pass |-> "gen", training |-> FALSE]}

\* ceil(n / b)
BlockLen == (n_train + batch_size - 1) \div batch_size
\* How often example x occurs in the batches served[from..to].
Occurrences(x, from, to) ==
    Cardinality({<<j, i>> \in (from..to) \X (1..batch_size) :
                    i <= Len(served[j]) /\ served[j][i] = x})

ExpectedIds == [i \in 1..Len(data) |-> IF data[i] = NoIdx THEN i - 1 ELSE data[i]]

\* C23: the loader returns one Example per record in file order, the id of
\* the i-th (0-based) being the record's explicit idx when present and i
\* otherwise, and loading the same file twice yields the same ids in the
\* same order.
C23_Loader ==
    /\ \A i \in 1..Len(examples) : examples[i] = ExpectedIds[i]
    /\ l_pc \in {"second", "done"} => first_examples = ExpectedIds
    /\ l_pc = "done" => examples = ExpectedIds /\ examples = first_examples

C23_Witness ==
    /\ l_pc = "done"
    /\ data = <<7, NoIdx, 0>>
    /\ examples = <<7, 1, 0>>
    /\ first_examples = <<7, 1, 0>>

\* C26: the test-phase file names depend only on beam_size: however many
\* files are configured the phase leaves exactly one hypothesis file and one
\* reference file, and they hold exactly the records of the last processed
\* file (the test file when both are configured), none of an earlier one.
C26_LastFileWins ==
    (tp_pc = "done" /\ Len(files) >= 1) =>
        /\ {e[1] : e \in disk} = {<<"test", beam_size, "output">>,
                                  <<"test", beam_size, "gold">>}
        /\ \A e \in disk :
              /\ Len(e[2]) = Len(files[Len(files)].ids)
              /\ \A i \in 1..Len(e[2]) :
                    /\ e[2][i].src = files[Len(files)].name
                    /\ e[2][i].idx = files[Len(files)].ids[i]

C26_Witness ==
    /\ tp_pc = "done"
    /\ Len(files) = 2
    /\ files[1] = [name |-> "dev", ids |-> <<0, 1>>]
    /\ files[2] = [name |-> "test", ids |-> <<10>>]
    /\ beam_size = 2
    /\ disk = {<<<<"test", 2, "output">>, <<[src |-> "test", idx |-> 10]>>>>,
               <<<<"test", 2, "gold">>, <<[src |-> "test", idx |-> 10]>>>>}

====
